---- MODULE Spec2Model ----
(***************************************************************************)
(* ThinStack: the batched shift-reduce stack of src/unnamed/part_001       *)
(* (thin-stack.cc) with its declaration src/metal_stack/thin-stack.h.      *)
(* Device arrays are flat functions 0..n-1 -> Int (floats holding small    *)
(* integers).  The kernels of kernels.cuh are not part of the sources at   *)
(* hand; they are modelled from the specification and from the comments    *)
(* that stand on their calls in step().                                    *)
(***************************************************************************)
EXTENDS Integers, Sequences, FiniteSets, TLC

\* ModelSpec fields (the configuration).  main() of test.cc configures a batch
\* of 2; sequence length and model dimension are kept small.
batch_size == 2
seq_length == 5
model_dim == 2

\* What a read outside an array's allocated extent, or of memory that was
\* never written, may return.
Garbage == {0, -3}

\* The token patterns the caller may put into X.
Patterns == {0, 1}

Batch == 0 .. batch_size - 1
Steps == 0 .. seq_length - 1
Dims == 0 .. model_dim - 1

\* Sizes computed by the constructor.
stack_size == seq_length
stack_total_size == (stack_size * batch_size) * model_dim
buffer_total_size == batch_size * seq_length * model_dim
queue_total_size == batch_size * seq_length
cursors_total_size == batch_size

\* A device array of n floats, all holding v.
Filled(n, v) == [j \in 0 .. n - 1 |-> v]

\* init_helpers(): batch_range = [0, 1, ..., B-1], batch_ones = [1, ..., 1].
batch_range == [i \in Batch |-> i]
batch_ones == [i \in Batch |-> 1]

\* The learned composition matrices, model_dim x model_dim, column-major
\* (element (row d, column k) at d + k * model_dim).  They are loaded from
\* files by load_params; the model fixes one generic, non-commuting pair.
compose_W_l == [j \in 0 .. model_dim * model_dim - 1 |->
                  LET d == j % model_dim
                      k == j \div model_dim
                  IN IF d = k THEN 2 ELSE IF k = d + 1 THEN -1 ELSE 0]
compose_W_r == [j \in 0 .. model_dim * model_dim - 1 |->
                  LET d == j % model_dim
                      k == j \div model_dim
                  IN IF d = k THEN 3 ELSE IF d = k + 1 THEN 1 ELSE 0]

\* The caller's X: seq_length-many (model_dim x batch_size) matrices, so the
\* k-th token of example i is row k * batch_size + i.  Pattern p gives every
\* element a value of its own.
XOf(p) == [j \in 0 .. buffer_total_size - 1 |-> 1 + j + p * buffer_total_size]

VARIABLES
  pc,            \* "constructed", "running" (inside forward()), "done", "destroyed"
  t,             \* forward()'s loop variable
  X,             \* input embeddings, written by the caller
  transitions,   \* input transitions, seq_length rows of batch_size
  buffer,        \* the pointer `buffer`: "buffer" (its own allocation) or "X"
  stack, queue, cursors, buffer_cur_t,
  buffer_top_t, stack_2_ptrs, stack_1_t, stack_2_t, merge_output,
  wild,          \* what out-of-extent reads return during this pass
  last,          \* the offsets the kernels of the last step() computed
  released,      \* how often each device allocation was handed to cudaFree
  in_flight,     \* the arrays with writes of launched kernels not yet completed
  raced          \* the arrays the last step() read while a write was in flight

vars == <<pc, t, X, transitions, buffer, stack, queue, cursors, buffer_cur_t,
          buffer_top_t, stack_2_ptrs, stack_1_t, stack_2_t, merge_output,
          wild, last, released, in_flight, raced>>

NoOffsets == [buffer_top |-> Filled(batch_size, 0),
              queue_rd |-> Filled(batch_size, 0),
              stack_1 |-> Filled(batch_size, 0),
              stack_2 |-> Filled(batch_size, 0),
              queue_wr |-> Filled(batch_size, 0),
              stack_wr |-> 0,
              cursors_in |-> Filled(batch_size, 0)]

----------------------------------------------------------------------------
(* Kernels and library calls *)

\* The row index a gather or scatter computes for every example:
\* idxs[i] * idx_scal_mul + idx_scal_shift + idx_vec_shift_coeff * idx_vec_shift[i].
kernel_idx(idxs, N, idx_scal_shift, idx_scal_mul, idx_vec_shift_coeff, idx_vec_shift) ==
  [i \in 0 .. N - 1 |->
     idxs[i] * idx_scal_mul + idx_scal_shift + idx_vec_shift_coeff * idx_vec_shift[i]]

\* k::subtensor1, the gather: row i of dst (D wide) is row rows[i] of src,
\* rows being the row indices the kernel computed.
\* A row outside src's allocated extent reads whatever lies there (g).
subtensor1(src, rows, N, D, g) ==
  [j \in 0 .. N * D - 1 |->
     LET off == rows[j \div D] * D + (j % D)
     IN IF off \in DOMAIN src THEN src[off] ELSE g]

\* k::addi_vv: v1 = v1 * v1_coeff + v2 * v2_coeff.
addi_vv(v1, v2, v1_coeff, v2_coeff, N) ==
  [i \in 0 .. N - 1 |-> v1[i] * v1_coeff + v2[i] * v2_coeff]

\* k::set_subtensor1i_s, the scalar scatter: dst[at[i]] = src for every
\* example i, at being the indices the kernel computed.  A store
\* outside dst's extent lands outside the array and leaves dst as it is.
set_subtensor1i_s(dst, src, at, N) ==
  [j \in DOMAIN dst |-> IF \E i \in 0 .. N - 1 : at[i] = j THEN src ELSE dst[j]]

\* k::switch_m: row i of dst is row i of ift where mask[i] = 1 and row i of
\* iff where it is 0.
switch_m(mask, ift, iff, N, D) ==
  [j \in 0 .. N * D - 1 |-> IF mask[j \div D] = 1 THEN ift[j] ELSE iff[j]]

\* cublasSgemm(N, N, m, n, k, alpha, A, lda, B, ldb, beta, C, ldc):
\* C = alpha * A * B + beta * C, all column-major; C is not read when beta = 0.
RECURSIVE Dot(_, _, _, _, _, _, _)
Dot(A, lda, Bm, ldb, d, i, k) ==
  IF k = 0 THEN 0
  ELSE Dot(A, lda, Bm, ldb, d, i, k - 1) + A[d + (k - 1) * lda] * Bm[(k - 1) + i * ldb]

cublasSgemm(m, n, k, alpha, A, lda, Bm, ldb, beta, C, ldc) ==
  [j \in 0 .. m * n - 1 |->
     alpha * Dot(A, lda, Bm, ldb, j % ldc, j \div ldc, k)
     + (IF beta = 0 THEN 0 ELSE beta * C[j])]

\* cublasSaxpy(n, alpha, x, 1, y, 1): y = alpha * x + y.
cublasSaxpy(n, alpha, x, y) == [i \in 0 .. n - 1 |-> alpha * x[i] + y[i]]

----------------------------------------------------------------------------
(* ThinStack's methods *)

\* Mutant: the memset of the Queue one example short.
zero_queue_short ==
  [j \in 0 .. queue_total_size - 1 |-> IF j < queue_total_size - seq_length THEN 0 ELSE 1]

\* zero(): the arrays forward() clears before the first step.
zero_stack == Filled(stack_total_size, 0)
zero_queue == Filled(queue_total_size, 0)
zero_cursors == Filled(cursors_total_size, 0)
zero_buffer_cur == Filled(batch_size, 0)

\* float *transitions_t = &transitions[t * spec.batch_size]
transitions_at(tr, tt) == [i \in Batch |-> tr[tt * batch_size + i]]

\* The index vectors of step()'s kernel calls.
\* buffer_top = buffer[buffer_cur_t * batch_size + batch_range]
buffer_top_idx(bc) == kernel_idx(bc, batch_size, 0, batch_size, 1, batch_range)

\* Mutant: the lookup without its -1, reading the slot of the top entry.
queue_rd_idx_top(cur) == kernel_idx(cur, batch_size, 0, 1, seq_length, batch_range)

\* stack_2_ptrs = queue[(cursors - 1) + batch_range * seq_length]
queue_rd_idx(cur) == kernel_idx(cur, batch_size, -1, 1, seq_length, batch_range)

\* Mutant: the pointer without the example's own column.
stack_2_ptrs_of_column_0(looked_up) == addi_vv(looked_up, batch_range, batch_size, 0, batch_size)

\* stack_2_ptrs = stack_2_ptrs * batch_size + batch_range * 1
stack_2_ptrs_of(looked_up) == addi_vv(looked_up, batch_range, batch_size, 1, batch_size)

\* stack_1_t = stack[batch_range + (t - 1) * spec.batch_size]
stack_1_idx(tt) == kernel_idx(batch_range, batch_size, (tt - 1) * batch_size, 1, 0, batch_range)

\* stack_2_t = stack[stack_2_ptrs]
stack_2_idx(ptrs) == kernel_idx(ptrs, batch_size, 0, 1, 0, batch_range)

\* Mutant: the scatter with the -1 of the lookup.
queue_wr_idx_below(cur) == kernel_idx(cur, batch_size, -1, 1, seq_length, batch_range)

\* queue[cursors + 0 + batch_range * spec.seq_length] = t
queue_wr_idx(cur) == kernel_idx(cur, batch_size, 0, 1, seq_length, batch_range)

\* Mutant: the children swapped, W_l on stack_1 and W_r on stack_2.
recurrence_swapped(s1, s2, mo) ==
  LET first == cublasSgemm(model_dim, batch_size, model_dim, 1, compose_W_l, model_dim, s1, model_dim, 0, mo, model_dim)
  IN cublasSgemm(model_dim, batch_size, model_dim, 1, compose_W_r, model_dim, s2, model_dim, 1, first, model_dim)

\* recurrence(): merge_output = W_l * stack_2 + W_r * stack_1 (no bias, no
\* rectification).
recurrence(s1, s2, mo) ==
  LET first == cublasSgemm(model_dim, batch_size, model_dim, 1, compose_W_l, model_dim, s2, model_dim, 0, mo, model_dim)
  IN cublasSgemm(model_dim, batch_size, model_dim, 1, compose_W_r, model_dim, s1, model_dim, 1, first, model_dim)

\* Mutant: the row start without the batch size.
stack_offset_no_batch(tt) == tt * model_dim

\* mask_and_update_stack(): the start of the row of timestep tt, and the
\* stack with the switched rows written there.
stack_offset(tt) == tt * batch_size * model_dim

\* Mutant: the two values of the switch exchanged.
mask_and_update_stack_swapped(stk, push_value, merge_value, tr, tt) ==
  LET row == switch_m(tr, push_value, merge_value, batch_size, model_dim)
  IN [j \in DOMAIN stk |->
        IF j - tt * batch_size * model_dim \in DOMAIN row THEN row[j - tt * batch_size * model_dim] ELSE stk[j]]

mask_and_update_stack(stk, push_value, merge_value, tr, tt) ==
  LET row == switch_m(tr, merge_value, push_value, batch_size, model_dim)
  IN [j \in DOMAIN stk |->
        IF j - stack_offset(tt) \in DOMAIN row THEN row[j - stack_offset(tt)] ELSE stk[j]]

\* Mutant: one update rule for both cursors, cursors += 1 - transitions.
mask_and_update_cursors_as_buffer_cur(cur, tr) ==
  cublasSaxpy(batch_size, -1, tr, cublasSaxpy(batch_size, 1, batch_ones, cur))

\* mask_and_update_cursors(): cursors += 1; cursors -= 2 * transitions.
mask_and_update_cursors(cur, tr) ==
  cublasSaxpy(batch_size, -2, tr, cublasSaxpy(batch_size, 1, batch_ones, cur))

\* Mutant: the buffer cursor updated the way `cursors` is.
update_buffer_cur_as_cursors(bc, tr) ==
  cublasSaxpy(batch_size, -2, tr, cublasSaxpy(batch_size, 1, batch_ones, bc))

\* update_buffer_cur(): buffer_cur += 1; buffer_cur -= transitions.
update_buffer_cur(bc, tr) ==
  cublasSaxpy(batch_size, -1, tr, cublasSaxpy(batch_size, 1, batch_ones, bc))

\* step(tt) on the object o (a record of its arrays), reading the buffer buf
\* and the transitions tr; g is what lies outside the arrays.  The result is
\* the object after the step; `last` logs the offsets its kernels computed.
\* (The singleton CHOOSEs evaluate each array once.)
step_of(o, buf, tr, tt, g) ==
  LET transitions_t == transitions_at(tr, tt)
      bt_i == buffer_top_idx(o.buffer_cur_t)
      bt == CHOOSE v \in {subtensor1(buf, bt_i, batch_size, model_dim, g)} : TRUE
      q_i == queue_rd_idx(o.cursors)
      \* one scalar for each example lands in stack_2_ptrs
      p2 == CHOOSE v \in {stack_2_ptrs_of(subtensor1(o.queue, q_i, batch_size, 1, g))} : TRUE
      s1_i == stack_1_idx(tt)
      s1 == CHOOSE v \in {subtensor1(o.stack, s1_i, batch_size, model_dim, g)} : TRUE
      s2_i == stack_2_idx(p2)
      s2 == CHOOSE v \in {subtensor1(o.stack, s2_i, batch_size, model_dim, g)} : TRUE
      mo == CHOOSE v \in {recurrence(s1, s2, o.merge_output)} : TRUE
      stk == mask_and_update_stack(o.stack, bt, mo, transitions_t, tt)
      cur == CHOOSE v \in {mask_and_update_cursors(o.cursors, transitions_t)} : TRUE
      qw_i == queue_wr_idx(cur)
      q == set_subtensor1i_s(o.queue, tt, qw_i, batch_size)
      bc == update_buffer_cur(o.buffer_cur_t, transitions_t)
  IN [stack |-> stk, queue |-> q, cursors |-> cur, buffer_cur_t |-> bc,
      buffer_top_t |-> bt, stack_2_ptrs |-> p2, stack_1_t |-> s1,
      stack_2_t |-> s2, merge_output |-> mo,
      last |-> [buffer_top |-> bt_i, queue_rd |-> q_i, stack_1 |-> s1_i,
                stack_2 |-> s2_i, queue_wr |-> qw_i, stack_wr |-> stack_offset(tt),
                cursors_in |-> o.cursors]]

\* The object as zero() leaves it (the scratch arrays, which zero() does not
\* touch, are written by a step before they are read).
zeroed ==
  [stack |-> zero_stack, queue |-> zero_queue, cursors |-> zero_cursors,
   buffer_cur_t |-> zero_buffer_cur, buffer_top_t |-> Filled(batch_size * model_dim, 0),
   stack_2_ptrs |-> Filled(batch_size, 0), stack_1_t |-> Filled(model_dim * batch_size, 0),
   stack_2_t |-> Filled(model_dim * batch_size, 0),
   merge_output |-> Filled(batch_size * model_dim, 0), last |-> NoOffsets]

\* forward() on the inputs xs, tr up to and including step(n - 1).
RECURSIVE forward_to(_, _, _, _)
forward_to(xs, tr, n, g) ==
  IF n = 0 THEN zeroed
  ELSE CHOOSE o \in {step_of(forward_to(xs, tr, n - 1, g), xs, tr, n - 1, g)} : TRUE

\* The object as a record of its arrays.
This == [stack |-> stack, queue |-> queue, cursors |-> cursors,
         buffer_cur_t |-> buffer_cur_t, buffer_top_t |-> buffer_top_t,
         stack_2_ptrs |-> stack_2_ptrs, stack_1_t |-> stack_1_t,
         stack_2_t |-> stack_2_t, merge_output |-> merge_output,
         last |-> last]

\* The array `buffer` points to.
buffer_mem(xs, g) == IF buffer = "X" THEN xs ELSE Filled(buffer_total_size, g)

\* The device allocations the constructor and init_helpers() make, one for
\* every cudaMalloc, named by the pointer that receives it.
Allocations ==
  {"X", "transitions", "stack", "queue", "cursors", "buffer",
   "buffer_top_idxs_t", "buffer_top_t", "stack_1_ptrs", "stack_1_t",
   "stack_2_ptrs", "stack_2_t", "push_output", "merge_output",
   "buffer_cur_t", "batch_range", "batch_ones"}

\* free_helpers(): the allocations its cudaFree calls are handed, in order.
free_helpers == <<"batch_ones", "batch_range">>

\* ~ThinStack(): the allocations its cudaFree calls are handed, in order; buf
\* is the allocation the pointer `buffer` holds by then.
destructor_frees(buf) ==
  free_helpers \o
  <<"X", "transitions", "stack", "queue", "cursors", buf,
    "buffer_top_idxs_t", "buffer_top_t", "stack_1_ptrs", "stack_2_ptrs",
    "push_output", "merge_output", "buffer_cur_t">>

\* How often the allocation a occurs among the frees.
cudaFree_count(frees, a) == Cardinality({k \in DOMAIN frees : frees[k] = a})

\* The arrays zero() sets, and the arrays carried from one step() to the next
\* that the kernels of a step() read and write.
zero_writes == {"stack", "queue", "cursors", "buffer_cur_t"}
step_reads == {"stack", "queue", "cursors", "buffer_cur_t"}
step_writes == {"stack", "queue", "cursors", "buffer_cur_t"}

\* The synchronisation step() makes before it launches its kernels: the
\* arrays whose writes it waits for (none: "TODO sync after kernel calls").
step_sync == {}

----------------------------------------------------------------------------
(* The state machine *)

\* The constructor has run: every array is allocated and holds whatever was
\* in its memory; the caller has written X and transitions.
Init ==
  /\ pc = "constructed"
  /\ t = 0
  /\ \E p \in Patterns : X = XOf(p)
  /\ transitions \in [0 .. seq_length * batch_size - 1 -> {0, 1}]
  /\ buffer = "buffer"
  /\ \E g \in Garbage :
       /\ wild = g
       /\ stack = Filled(stack_total_size, g)
       /\ queue = Filled(queue_total_size, g)
       /\ cursors = Filled(cursors_total_size, g)
       /\ buffer_cur_t = Filled(batch_size, g)
       /\ buffer_top_t = Filled(batch_size * model_dim, g)
       /\ stack_2_ptrs = Filled(batch_size, g)
       /\ stack_1_t = Filled(model_dim * batch_size, g)
       /\ stack_2_t = Filled(model_dim * batch_size, g)
       /\ merge_output = Filled(batch_size * model_dim, g)
  /\ last = NoOffsets
  /\ released = [a \in Allocations |-> 0]
  /\ in_flight = {}
  /\ raced = {}

\* forward() up to its loop: buffer = X; zero(); t = 0.
forward ==
  /\ pc \in {"constructed", "done"}
  /\ pc' = "running"
  /\ t' = 0
  /\ buffer' = "X"
  /\ stack' = zero_stack
  /\ queue' = zero_queue
  /\ cursors' = zero_cursors
  /\ buffer_cur_t' = zero_buffer_cur
  /\ \E g \in Garbage : wild' = g
  /\ last' = NoOffsets
  /\ in_flight' = in_flight \cup zero_writes
  /\ raced' = {}
  /\ UNCHANGED <<X, transitions, buffer_top_t, stack_2_ptrs, stack_1_t,
                 stack_2_t, merge_output, released>>

\* One iteration of forward()'s loop: step(t); t++.
step ==
  /\ pc = "running"
  /\ t < seq_length
  /\ \E n \in {step_of(This, buffer_mem(X, wild), transitions, t, wild)} :
        /\ stack' = n.stack
        /\ queue' = n.queue
        /\ cursors' = n.cursors
        /\ buffer_cur_t' = n.buffer_cur_t
        /\ buffer_top_t' = n.buffer_top_t
        /\ stack_2_ptrs' = n.stack_2_ptrs
        /\ stack_1_t' = n.stack_1_t
        /\ stack_2_t' = n.stack_2_t
        /\ merge_output' = n.merge_output
        /\ last' = n.last
  /\ t' = t + 1
  /\ raced' = (in_flight \ step_sync) \cap step_reads
  /\ in_flight' = (in_flight \ step_sync) \cup step_writes
  /\ UNCHANGED <<pc, X, transitions, buffer, wild, released>>

\* Mutant: the loop left one timestep early.
forward_return_early ==
  /\ pc = "running"
  /\ t >= seq_length - 1
  /\ pc' = "done"
  /\ UNCHANGED <<t, X, transitions, buffer, stack, queue, cursors,
                 buffer_cur_t, buffer_top_t, stack_2_ptrs, stack_1_t,
                 stack_2_t, merge_output, wild, last, released, in_flight, raced>>

\* forward()'s loop ends and forward() returns.
forward_return ==
  /\ pc = "running"
  /\ t >= seq_length
  /\ pc' = "done"
  /\ UNCHANGED <<t, X, transitions, buffer, stack, queue, cursors,
                 buffer_cur_t, buffer_top_t, stack_2_ptrs, stack_1_t,
                 stack_2_t, merge_output, wild, last, released, in_flight, raced>>

\* ~ThinStack(), on an object that is not inside forward().
destroy ==
  /\ pc \in {"constructed", "done"}
  /\ pc' = "destroyed"
  /\ released' = [a \in Allocations |-> released[a] + cudaFree_count(destructor_frees(buffer), a)]
  /\ UNCHANGED <<t, X, transitions, buffer, stack, queue, cursors,
                 buffer_cur_t, buffer_top_t, stack_2_ptrs, stack_1_t,
                 stack_2_t, merge_output, wild, last, in_flight, raced>>

Next == forward \/ step \/ forward_return \/ destroy

Spec == Init /\ [][Next]_vars

\* forward() is sequential code: its loop and its return are taken.  Its
\* control flow reads no array, so the inputs are one X, one content of
\* foreign memory, and every transition row for example 0 beside all-shift
\* rows for the others.
LiveInit ==
  /\ Init
  /\ X = XOf(0)
  /\ wild = 0
  /\ \A j \in DOMAIN transitions : j % batch_size # 0 => transitions[j] = 0

LiveSpec == LiveInit /\ [][Next]_vars /\ WF_vars(step) /\ WF_vars(forward_return)

\* The device completes the kernels launched so far, at a time of its own.
kernels_complete ==
  /\ in_flight # {}
  /\ in_flight' = {}
  /\ UNCHANGED <<pc, t, X, transitions, buffer, stack, queue, cursors,
                 buffer_cur_t, buffer_top_t, stack_2_ptrs, stack_1_t,
                 stack_2_t, merge_output, wild, last, released, raced>>

\* The object with the device's completions made visible, for one X and one
\* content of foreign memory.
InitAsync == Init /\ X = XOf(0) /\ wild = 0

NextAsync == Next \/ kernels_complete

SpecAsync == InitAsync /\ [][NextAsync]_vars

----------------------------------------------------------------------------
(* Reading the arrays by example and timestep *)

\* Transitions[i, tt]: 0 is shift, 1 is reduce.
Tr(i, tt) == transitions[tt * batch_size + i]

\* The k-th token of example i in X.
Token(i, k) == [d \in Dims |-> X[(k * batch_size + i) * model_dim + d]]

\* Row i of a batch_size x model_dim scratch matrix, and row (tt, i) of a stack.
RowOf(m, i) == [d \in Dims |-> m[i * model_dim + d]]
StackRow(stk, tt, i) == [d \in Dims |-> stk[(tt * batch_size + i) * model_dim + d]]

\* step() has run in this pass; the last one was step(t - 1).
Stepped == pc \in {"running", "done"} /\ t >= 1

----------------------------------------------------------------------------
(* The reference: one software stack per example *)

\* The number of shifts among Transitions[i, 0 .. n-1].
NumShifts(i, n) == Cardinality({tt \in 0 .. n - 1 : Tr(i, tt) = 0})

RECURSIVE MatVecAt(_, _, _, _)
MatVecAt(W, v, d, k) ==
  IF k = 0 THEN 0 ELSE MatVecAt(W, v, d, k - 1) + W[d + (k - 1) * model_dim] * v[k - 1]

\* The composition of a left and a right child: W_l * left + W_r * right.
Compose(left, right) ==
  [d \in Dims |-> MatVecAt(compose_W_l, left, d, model_dim) + MatVecAt(compose_W_r, right, d, model_dim)]

\* Example i's stack after timesteps 0 .. n-1, bottom first; an entry holds
\* its value and the timestep that pushed it.  A reduce that finds fewer than
\* two entries leaves the stack alone (such inputs are not well-formed).
RECURSIVE RefStack(_, _)
RefStack(i, n) ==
  IF n = 0 THEN <<>>
  ELSE LET prev == RefStack(i, n - 1)
           len == Len(prev)
       IN IF Tr(i, n - 1) = 0
          THEN Append(prev, [at |-> n - 1, val |-> Token(i, NumShifts(i, n - 1))])
          ELSE IF len < 2 THEN prev
          ELSE Append(SubSeq(prev, 1, len - 2),
                      [at |-> n - 1, val |-> Compose(prev[len - 1].val, prev[len].val)])

\* Transitions[i, 0 .. n-1] is well-formed: every reduce finds two entries
\* (so timestep 0 is a shift).
WellFormed(i, n) == \A tt \in 0 .. n - 1 : Tr(i, tt) = 1 => Len(RefStack(i, tt)) >= 2

\* The input is well-formed up to timestep n-1: every example's row is.
InputWellFormed(n) == \A i \in Batch : WellFormed(i, n)

----------------------------------------------------------------------------
(* The claims *)

C3_BufferCursorCountsShifts ==
  pc \in {"running", "done"} =>
    \A i \in Batch : buffer_cur_t[i] = NumShifts(i, t)

\* Both a shift and a reduce have moved, respectively kept, a cursor.
C3_Witness ==
  /\ pc = "done"
  /\ \E i \in Batch : buffer_cur_t[i] \in 1 .. seq_length - 1

\* C4 as claimed: `cursors` never decreases, steps by 1 - transition, and is
\* the buffer-read cursor after every step.
C4_CursorsIsBufferCursor ==
  (pc \in {"running", "done"} /\ InputWellFormed(t)) =>
    \A i \in Batch : cursors[i] = NumShifts(i, t) /\ cursors[i] = buffer_cur_t[i]

\* C4, amended: step(t) moves `cursors` by 1 - 2 * transition, up by one on a
\* shift and down by one on a reduce, so after every step it is shifts minus
\* reduces, and lies below the buffer-read cursor by the number of reduces.
C4_CursorsIsShiftsMinusReduces ==
  pc \in {"running", "done"} =>
    \A i \in Batch :
      /\ cursors[i] = NumShifts(i, t) - (t - NumShifts(i, t))
      /\ buffer_cur_t[i] - cursors[i] = t - NumShifts(i, t)
      /\ Stepped => cursors[i] = last.cursors_in[i] + 1 - 2 * Tr(i, t - 1)

\* A reduce of a well-formed input has just lowered a cursor.
C4_Witness ==
  /\ Stepped
  /\ InputWellFormed(t)
  /\ \E i \in Batch : Tr(i, t - 1) = 1 /\ cursors[i] = last.cursors_in[i] - 1

\* The Queue entries step(t - 1) wrote hold t - 1 (where they lie in the Queue).
QueueHoldsStep ==
  \A i \in Batch : last.queue_wr[i] \in DOMAIN queue => queue[last.queue_wr[i]] = t - 1

\* C5 as claimed: the Queue entry written by step(t) is indexed by the cursor
\* as it was before the step's cursor update, and holds t.
C5_QueueWriteAtCursorBefore ==
  (Stepped /\ InputWellFormed(t)) =>
    /\ \A i \in Batch : last.queue_wr[i] = last.cursors_in[i] + i * seq_length
    /\ QueueHoldsStep

\* C5, amended: the Queue entry written by step(t) is indexed by the cursor as
\* it is after the step's cursor update (offset cursors[i] + i * seq_length),
\* and holds t.
C5_QueueWriteAtCursorAfter ==
  Stepped =>
    /\ \A i \in Batch : last.queue_wr[i] = cursors[i] + i * seq_length
    /\ QueueHoldsStep

\* A step after the first has written t - 1 into an entry of the Queue.
C5_Witness ==
  /\ Stepped
  /\ t >= 2
  /\ \E i \in Batch :
       /\ last.queue_wr[i] \in DOMAIN queue
       /\ queue[last.queue_wr[i]] = t - 1
       /\ last.queue_wr[i] # last.cursors_in[i] + i * seq_length

\* C6: on a well-formed input every row a gather of step(t) reads lies in the
\* allocated extent of its source, for every t from 0 on: the Buffer row, the
\* Stack row (t-1)*B + i, the Queue entry (cursors[i]-1) + i*T, the Stack row
\* of stack_2.
C6_GatherOffsetsInExtent ==
  (Stepped /\ InputWellFormed(t)) =>
    \A i \in Batch :
      /\ last.buffer_top[i] \in 0 .. batch_size * seq_length - 1
      /\ last.stack_1[i] \in 0 .. stack_size * batch_size - 1
      /\ last.queue_rd[i] \in 0 .. queue_total_size - 1
      /\ last.stack_2[i] \in 0 .. stack_size * batch_size - 1

\* The Stack rows written for example i before timestep tt.
WrittenRows(i, tt) == {tau * batch_size + i : tau \in 0 .. tt - 1}

\* C7: an input with a reduce at timestep 0 is rejected: no step writes a
\* composition whose child rows were gathered from outside the Stack rows
\* already written for that example.
C7_ReduceAtZeroRejected ==
  (Stepped /\ \E i \in Batch : Tr(i, 0) = 1) =>
    \A i \in Batch :
      Tr(i, t - 1) = 1 =>
        /\ last.stack_1[i] \in WrittenRows(i, t - 1)
        /\ last.stack_2[i] \in WrittenRows(i, t - 1)

\* The well-formed transition rows of one example.
RECURSIVE DepthOf(_, _)
DepthOf(row, n) == IF n = 0 THEN 0 ELSE DepthOf(row, n - 1) + 1 - 2 * row[n - 1]

WellFormedRows ==
  {row \in [Steps -> {0, 1}] : \A tt \in Steps : row[tt] = 1 => DepthOf(row, tt) >= 2}

\* The well-formed rows as far as the first n timesteps tell them apart (the
\* timesteps from n on, which the first n steps do not read, are shifts).
WellFormedUpTo(n) ==
  {[tt \in Steps |-> IF tt < n THEN row[tt] ELSE 0] : row \in WellFormedRows}

\* The inputs of another pass that agrees with this one on example i: the
\* other examples take the tokens of pattern p and the rows others[j].
OtherX(i, p) ==
  [j \in DOMAIN X |-> IF (j \div model_dim) % batch_size = i THEN X[j] ELSE XOf(p)[j]]

OtherTransitions(i, others) ==
  [j \in DOMAIN transitions |->
     IF j % batch_size = i THEN transitions[j] ELSE others[j % batch_size][j \div batch_size]]

C9_WrittenRowIsSelectedCandidate ==
  Stepped =>
    \A i \in Batch :
      StackRow(stack, t - 1, i) =
        IF Tr(i, t - 1) = 1 THEN RowOf(merge_output, i) ELSE RowOf(buffer_top_t, i)

\* One step reduced one example and shifted another, the candidates all differing.
C9_Witness ==
  /\ Stepped
  /\ \E i, j \in Batch :
       /\ Tr(i, t - 1) = 1
       /\ Tr(j, t - 1) = 0
       /\ RowOf(merge_output, i) # RowOf(buffer_top_t, i)
       /\ RowOf(merge_output, j) # RowOf(buffer_top_t, j)
       /\ RowOf(merge_output, i) # RowOf(merge_output, j)
       /\ RowOf(buffer_top_t, i) # RowOf(buffer_top_t, j)

\* The Stack holds, for every timestep from n on, the rows the step of that
\* timestep wrote when it ran; o is the object as step(n - 1) left it.
RECURSIVE RowsKeptFrom(_, _)
RowsKeptFrom(o, n) ==
  IF n >= seq_length THEN TRUE
  ELSE \A wrote \in {step_of(o, X, transitions, n, wild)} :
         /\ \A i \in Batch : StackRow(stack, n, i) = StackRow(wrote.stack, n, i)
         /\ RowsKeptFrom(wrote, n + 1)

\* C10: step(t) changes Stack only in t*B*D .. (t+1)*B*D - 1 and changes
\* neither X nor what `buffer` points to; so when forward() has returned,
\* every Stack row tt holds what step(tt) wrote.
C10_StepWritesOnlyRowT ==
  /\ [][(pc = "running" /\ t' = t + 1) =>
         /\ \A j \in DOMAIN stack :
              (j < t * batch_size * model_dim \/ j >= (t + 1) * batch_size * model_dim)
                => stack'[j] = stack[j]
         /\ DOMAIN stack' = DOMAIN stack
         /\ X' = X
         /\ buffer' = buffer]_vars
  /\ [](pc = "done" => RowsKeptFrom(zeroed, 0))

\* A later step has run while the rows of timestep 0 hold what step(0) wrote.
C10_Witness ==
  /\ Stepped
  /\ t >= 3
  /\ \A i \in Batch : StackRow(stack, 0, i) = Token(i, 0)

\* C11: forward() resets the arrays before any step, then runs step(t) once
\* for each t = 0, 1, ..., seq_length - 1 in increasing order (each step
\* writing the Stack rows of its own timestep), returns only after step
\* seq_length - 1, and does return.
C11_ForwardRunsEveryStepInOrder ==
  /\ [][/\ (pc # "running" /\ pc' = "running") =>
             (/\ t' = 0
              /\ stack' = zero_stack /\ queue' = zero_queue
              /\ cursors' = zero_cursors /\ buffer_cur_t' = zero_buffer_cur)
        /\ (pc = "running" /\ pc' = "running") =>
             (/\ t < seq_length
              /\ t' = t + 1
              /\ last'.stack_wr = t * batch_size * model_dim)
        /\ (pc = "running" /\ pc' # "running") =>
             (/\ t = seq_length
              /\ pc' = "done")]_vars
  /\ [](pc = "running" => t \in 0 .. seq_length)
  /\ (pc = "running" ~> pc = "done")

\* forward() has returned, its last step having been step(seq_length - 1),
\* on an input that reduces there.
C11_Witness ==
  /\ pc = "done"
  /\ t = seq_length
  /\ last.stack_wr = (seq_length - 1) * batch_size * model_dim
  /\ Tr(0, seq_length - 1) = 1

\* C12: at the start of step 0 of every forward pass, every element of Stack,
\* Queue, `cursors` and the buffer-read cursor is zero.
C12_ZeroedAtStepZero ==
  (pc = "running" /\ t = 0) =>
    /\ \A j \in DOMAIN stack : stack[j] = 0
    /\ \A j \in DOMAIN queue : queue[j] = 0
    /\ \A i \in DOMAIN cursors : cursors[i] = 0
    /\ \A i \in DOMAIN buffer_cur_t : buffer_cur_t[i] = 0
    /\ DOMAIN stack = 0 .. stack_total_size - 1
    /\ DOMAIN queue = 0 .. queue_total_size - 1
    /\ DOMAIN cursors = Batch
    /\ DOMAIN buffer_cur_t = Batch

\* A pass begins on an object whose scratch arrays hold what the steps of an
\* earlier pass left there.
C12_Witness ==
  /\ pc = "running"
  /\ t = 0
  /\ \E j \in DOMAIN merge_output : merge_output[j] \notin Garbage
  /\ \E j \in DOMAIN buffer_top_t : buffer_top_t[j] \notin Garbage

\* The bias of the Composition Unit, one value for each feature, and the
\* rectification.  (load_params passes NULL for compose_b, and recurrence()
\* reads no bias; the contract's bias is a model_dim-vector.)
compose_b == [d \in Dims |-> d + 1]
Rectify(v) == IF v < 0 THEN 0 ELSE v

\* C13: the merge candidate recurrence() leaves for example i is
\* rectify(compose_W_l * L + compose_W_r * R + compose_b), L being row i of
\* stack_2 and R row i of stack_1.
C13_MergeIsRectifiedAffine ==
  Stepped =>
    \A i \in Batch : \A d \in Dims :
      merge_output[i * model_dim + d] =
        Rectify(Compose(RowOf(stack_2_t, i), RowOf(stack_1_t, i))[d] + compose_b[d])

\* C14: once the destructor has run, every device array the constructor and
\* init_helpers() allocated has been released exactly once, whether or not
\* forward() was called in between.
C14_EveryAllocationReleasedOnce ==
  pc = "destroyed" => \A a \in Allocations : released[a] = 1

\* C15: step(t + 1) reads Stack, Queue and the cursors only after every
\* write step(t) launched to them has completed: no step after step 0 reads
\* an array with a write still in flight.
C15_StepReadsAfterWritesComplete ==
  (Stepped /\ t >= 2) => raced \cap {"stack", "queue", "cursors", "buffer_cur_t"} = {}

\* C16: on a well-formed input, the Queue entry step(t) writes for example i
\* lies in example i's own Queue row, i * seq_length .. (i + 1) * seq_length - 1,
\* and so inside the Queue's queue_total_size entries.
C16_QueueWriteInOwnRow ==
  (Stepped /\ InputWellFormed(t)) =>
    \A i \in Batch :
      /\ last.queue_wr[i] \in i * seq_length .. (i + 1) * seq_length - 1
      /\ last.queue_wr[i] \in 0 .. queue_total_size - 1

\* The Stack, the Queue and both cursors of an object.
Carried(o) == <<o.stack, o.queue, o.cursors, o.buffer_cur_t>>

\* C17: when forward() has returned, Stack, Queue and both cursors are what
\* one forward() on a fresh object leaves for the same X and Transitions,
\* whatever that pass found in memory: they depend on nothing but X and
\* Transitions, and every merge candidate on nothing but its two children.
C17_ForwardIsRepeatable ==
  /\ pc = "done" =>
       \A w \in Garbage : Carried(This) = Carried(forward_to(X, transitions, seq_length, w))
  /\ Stepped =>
       \A i \in Batch :
         RowOf(merge_output, i) = Compose(RowOf(stack_2_t, i), RowOf(stack_1_t, i))

====
